---- MODULE Spec2Model ----
(***************************************************************************)
(* Model of Find_GitHub_UserNames.py: the search function search_github,  *)
(* the history recorder save_to_excel and the /search route that composes *)
(* them, with the results file as shared state.                           *)
(*                                                                         *)
(* Python strings that the code inspects or builds (query text, logins,   *)
(* header values, the Results column) are sequences of one-character      *)
(* strings.  An optional value is a sequence of length at most one:       *)
(* None is <<>> and a present value v is <<v>>.                           *)
(***************************************************************************)
EXTENDS Integers, Sequences, FiniteSets, TLC

\* ------------------------------------------------------------------ bounds
NumProcs == 2
MaxRequests == 2
MaxUsers == 2
MaxNow == 1

\* --------------------------------------------------------- python helpers
None == <<>>
Some(v) == <<v>>

\* request.form.get('search_type') of a form without that field
PyNone == "None"

Max(a, b) == IF a >= b THEN a ELSE b

RECURSIVE LStrip(_)
LStrip(s) ==
    IF s # <<>> /\ Head(s) = " " THEN LStrip(Tail(s)) ELSE s

RECURSIVE RStrip(_)
RStrip(s) ==
    IF s # <<>> /\ s[Len(s)] = " " THEN RStrip(SubSeq(s, 1, Len(s) - 1)) ELSE s

\* str.strip()
Strip(s) == RStrip(LStrip(s))

Digits == <<"0", "1", "2", "3", "4", "5", "6", "7", "8", "9">>

DigitValue(c) == (CHOOSE i \in 1..10 : Digits[i] = c) - 1

IsDigit(c) == \E i \in 1..10 : Digits[i] = c

\* int(s) raises ValueError unless s is a decimal numeral
IsNumeral(s) == s # <<>> /\ \A i \in 1..Len(s) : IsDigit(s[i])

RECURSIVE ParseInt(_)
ParseInt(s) ==
    IF s = <<>> THEN 0
    ELSE 10 * ParseInt(SubSeq(s, 1, Len(s) - 1)) + DigitValue(s[Len(s)])

\* sep.join(parts)
RECURSIVE Join(_, _)
Join(sep, parts) ==
    IF parts = <<>> THEN <<>>
    ELSE IF Len(parts) = 1 THEN parts[1]
    ELSE parts[1] \o sep \o Join(sep, Tail(parts))

\* ------------------------------------------------------- input domains
SearchTypes == {"email", "name", PyNone}

\* the form's search_type field: one of the two kinds, or missing
FormSearchTypes == {"name", PyNone}

\* the form's query field as typed; '' is also the default of a missing field
RawQueries == {<<>>, <<" ">>, <<" ", "a", " ">>, <<"N", "A">>}

\* query arguments of a direct call of search_github
Queries == {<<>>, <<" ">>, <<"a">>}

RawTokens == {<<>>, <<" ">>, <<"t">>}

Tokens == {None, Some(<<"t">>)}

\* a JSON value found under 'login': a string, or null
JStr(s) == [t |-> "str", v |-> s]
JNull == [t |-> "null", v |-> <<>>]

\* one element of the payload's item list: a dict that has all four keys
Item(login) == [login |-> login, html_url |-> "h", avatar_url |-> "v", type |-> "User"]

\* and one that lacks 'login'
NoLoginItem == [html_url |-> "h", avatar_url |-> "v", type |-> "User"]

\* the item lists of the payloads: up to MaxUsers accounts, a null login, a
\* missing login
ItemLists ==
    {l \in {<<>>, <<Item(JStr(<<"a">>))>>,
            <<Item(JStr(<<"b", "c">>)), Item(JStr(<<"a">>))>>,
            <<Item(JStr(<<"a">>)), Item(JStr(<<"b", "c">>)), Item(JStr(<<"a">>))>>,
            <<Item(JNull)>>, <<Item(JStr(<<"a">>)), NoLoginItem>>} :
        Len(l) <= MaxUsers}

\* the payload: not JSON, a JSON list, a dict without 'items', a dict whose
\* 'items' is null, or a dict with an item list
Bodies ==
    [shape : {"badjson", "list", "noitems", "nullitems"}, items : {<<>>}]
    \cup [shape : {"dict"}, items : ItemLists]

\* values of a response header, when the header is present
HeaderValues == {<<"0">>, <<"0", "0">>, <<"2">>, <<"x">>}

StatusCodes == {200, 403, 404, 500}

\* what requests.get meets: a transport failure, or a response
Responses ==
    [transport : {"Timeout", "ConnectionError"}, status : {0},
     remaining : {None}, reset : {None}, body : {[shape |-> "badjson", items |-> <<>>]}]
    \cup
    [transport : {"ok"}, status : StatusCodes,
     remaining : {None} \cup {Some(h) : h \in HeaderValues},
     reset : {None} \cup {Some(h) : h \in HeaderValues},
     body : Bodies]

\* ------------------------------------------------------- search_github
Return(users, error) == [tag |-> "return", users |-> users, error |-> error, exc |-> ""]
Raise(exc) == [tag |-> "raise", users |-> <<>>, error |-> None, exc |-> exc]

\* the classes caught by `except requests.exceptions.RequestException`
RequestExceptions == {"Timeout", "ConnectionError", "HTTPError", "JSONDecodeError"}

\* what pd.read_excel and DataFrame.to_excel raise on an unreadable file or a
\* failing file operation
IOExceptions == {"BadZipFile", "OSError"}

\* a handler that lacks the `except Exception` clause
ExceptionsNarrow == RequestExceptions

\* the classes caught by `except Exception`
Exceptions ==
    RequestExceptions \cup IOExceptions
    \cup {"ValueError", "KeyError", "AttributeError", "TypeError"}

ErrorMsg(text, search_type, detail, wait) ==
    [text |-> text, search_type |-> search_type, detail |-> detail, wait |-> wait]

BuildHeaders(token) ==
    [Accept |-> "application/vnd.github.v3+json",
     Authorization |-> IF token # None THEN Some(<<"token ">> \o token[1]) ELSE None]

BuildParams(search_type, query) == [q |-> <<query, " in:", search_type>>]

\* lines 58-64: the rate-limit check
RateLimitCheck(resp, t) ==
    IF resp.status = 403 /\ resp.remaining # None
    THEN IF ~IsNumeral(resp.remaining[1]) THEN Raise("ValueError")
         ELSE IF ParseInt(resp.remaining[1]) = 0
         THEN IF resp.reset = None THEN Raise("KeyError")
              ELSE IF ~IsNumeral(resp.reset[1]) THEN Raise("ValueError")
              ELSE Return(<<>>,
                          Some(ErrorMsg("GitHub API rate limit exceeded", "", "",
                                        Max(0, ParseInt(resp.reset[1]) - t))))
         ELSE Return(<<>>, None)
    ELSE Return(<<>>, None)

\* lines 74-82: the user dictionaries, in the order of the item list
UserData(items) ==
    [i \in 1..Len(items) |->
        [login |-> items[i].login, url |-> items[i].html_url,
         avatar_url |-> items[i].avatar_url, type |-> items[i].type]]

\* lines 66-84: raise_for_status, the payload and the user list
ParseResults(search_type, resp) ==
    IF resp.status >= 400 THEN Raise("HTTPError")
    ELSE IF resp.body.shape = "badjson" THEN Raise("JSONDecodeError")
    ELSE IF resp.body.shape = "list" THEN Raise("AttributeError")
    ELSE IF resp.body.shape = "nullitems" THEN Raise("TypeError")
    ELSE IF search_type = PyNone THEN Raise("AttributeError")
    ELSE IF \E i \in 1..Len(resp.body.items) : "login" \notin DOMAIN resp.body.items[i]
    THEN Raise("KeyError")
    ELSE Return(UserData(resp.body.items), None)

\* a try body that checks the status before the rate limit
TryBodyStatusFirst(search_type, resp, t) ==
    IF resp.transport # "ok" THEN Raise(resp.transport)
    ELSE LET pr == ParseResults(search_type, resp)
         IN  IF pr.tag = "raise" THEN pr
             ELSE LET rl == RateLimitCheck(resp, t)
                  IN  IF rl.tag = "raise" \/ rl.error # None THEN rl ELSE pr

\* lines 50-84: the body of the try statement
TryBody(search_type, resp, t) ==
    IF resp.transport # "ok" THEN Raise(resp.transport)
    ELSE LET rl == RateLimitCheck(resp, t)
         IN  IF rl.tag = "raise" \/ rl.error # None THEN rl
             ELSE ParseResults(search_type, resp)

\* lines 85-92: the two except clauses; a class neither clause names propagates
Handle(search_type, r) ==
    IF r.tag = "return"
    THEN [users |-> r.users, error |-> r.error, raised |-> None,
          log |-> IF r.error = None THEN "info" ELSE "warning"]
    ELSE IF r.exc \in RequestExceptions
    THEN [users |-> <<>>,
          error |-> Some(ErrorMsg("Request error searching by", search_type, r.exc, 0)),
          raised |-> None, log |-> "error"]
    ELSE IF r.exc \in Exceptions
    THEN [users |-> <<>>,
          error |-> Some(ErrorMsg("Error searching by", search_type, r.exc, 0)),
          raised |-> None, log |-> "error"]
    ELSE [users |-> <<>>, error |-> None, raised |-> Some(r.exc), log |-> ""]

\* a search_github without the check of line 39
search_githubNoCheck(search_type, query, token, resp, t) ==
    LET h == Handle(search_type, TryBody(search_type, resp, t))
    IN  [users |-> h.users, error |-> h.error, raised |-> h.raised, log |-> h.log,
         calls |-> 1,
         sent |-> Some([headers |-> BuildHeaders(token),
                        params |-> BuildParams(search_type, query),
                        timeout |-> 10])]

\* search_github(search_type, query, token) meeting response resp at time t:
\* the outcome, the number of calls of requests.get and the request sent
search_github(search_type, query, token, resp, t) ==
    IF query = <<>>
    THEN [users |-> <<>>,
          error |-> Some(ErrorMsg("No query provided", "", "", 0)),
          raised |-> None, log |-> "warning", calls |-> 0, sent |-> None]
    ELSE LET h == Handle(search_type, TryBody(search_type, resp, t))
         IN  [users |-> h.users, error |-> h.error, raised |-> h.raised, log |-> h.log,
              calls |-> 1,
              sent |-> Some([headers |-> BuildHeaders(token),
                             params |-> BuildParams(search_type, query),
                             timeout |-> 10])]

\* ------------------------------------------------------- save_to_excel
\* a DataFrame cell that holds NaN
NaN == <<"<NaN>">>

\* the strings pd.read_excel reads as NaN (keep_default_na=True); the empty
\* cell is one of them
NaStrings ==
    {<<>>, <<"N", "A">>, <<"N", "/", "A">>, <<"n", "/", "a">>, <<"n", "a", "n">>,
     <<"N", "a", "N">>, <<"n", "u", "l", "l">>, <<"N", "U", "L", "L">>}

ReadCell(c) == IF c \in NaStrings THEN NaN ELSE c

\* to_excel writes NaN as an empty cell (na_rep='')
WriteCell(v) == IF v = NaN THEN <<>> ELSE v

\* pd.read_excel(RESULTS_FILE) of a readable file with these rows
ReadExcel(rows) ==
    [i \in 1..Len(rows) |->
        [Timestamp |-> rows[i].Timestamp,
         Search_Type |-> ReadCell(rows[i].Search_Type),
         Input |-> ReadCell(rows[i].Input),
         Results |-> ReadCell(rows[i].Results),
         Result_Count |-> rows[i].Result_Count]]

\* a to_excel that writes the NaN-like strings as empty cells
ToExcelNaRep(df) ==
    [i \in 1..Len(df) |->
        [Timestamp |-> df[i].Timestamp,
         Search_Type |-> WriteCell(ReadCell(df[i].Search_Type)),
         Input |-> WriteCell(ReadCell(df[i].Input)),
         Results |-> WriteCell(ReadCell(df[i].Results)),
         Result_Count |-> df[i].Result_Count]]

\* the rows df.to_excel(RESULTS_FILE, index=False) puts in the file
ToExcel(df) ==
    [i \in 1..Len(df) |->
        [Timestamp |-> df[i].Timestamp,
         Search_Type |-> WriteCell(df[i].Search_Type),
         Input |-> WriteCell(df[i].Input),
         Results |-> WriteCell(df[i].Results),
         Result_Count |-> df[i].Result_Count]]

\* line 99: usernames = [user['login'] for user in results]
Usernames(results) == [i \in 1..Len(results) |-> results[i].login]

\* ', '.join raises TypeError on an element that is not a str
AllStr(usernames) == \A i \in 1..Len(usernames) : usernames[i].t = "str"

\* a join on the comma alone
ResultsColumnNoSpace(usernames) ==
    IF usernames # <<>>
    THEN Join(<<",">>, [i \in 1..Len(usernames) |-> usernames[i].v])
    ELSE <<"N", "o", " ", "r", "e", "s", "u", "l", "t", "s">>

\* line 104
ResultsColumn(usernames) ==
    IF usernames # <<>>
    THEN Join(<<",", " ">>, [i \in 1..Len(usernames) |-> usernames[i].v])
    ELSE <<"N", "o", " ", "r", "e", "s", "u", "l", "t", "s">>

\* lines 100-106: the one-row DataFrame; search_type is a str here
NewEntry(timestamp, search_type, input_data, results) ==
    [Timestamp |-> timestamp,
     Search_Type |-> <<search_type>>,
     Input |-> input_data,
     Results |-> ResultsColumn(Usernames(results)),
     Result_Count |-> Len(results)]

\* line 112: pd.concat([df, new_entry], ignore_index=True)
Concat(df, new_entry) == df \o <<new_entry>>

\* a save_to_excel without its except clause
OnSaveErrorRaise(exc) == "raised"

\* an except clause that reports success
OnSaveErrorTrue(exc) == "True"

\* lines 121-123: what save_to_excel returns when exc is raised inside its try
OnSaveError(exc) == IF exc \in Exceptions THEN "False" ELSE "raised"

\* --------------------------------------------------------------- state
Procs == 1..NumProcs

VARIABLES
    store,        \* RESULTS_FILE: absent, readable with rows, or unreadable
    now,          \* the clock, in seconds
    pc,           \* where each request handler stands
    search_type,  \* locals of search()
    query,
    token,
    users,
    error,
    page,         \* what search() answered
    new_entry,    \* locals of save_to_excel()
    updated_df,
    ret,          \* "none" while running, then "True", "False" or "raised"
    failure,      \* the exception raised inside save_to_excel's try, if any
    overwritten,  \* another handler wrote the file since this one opened it
    netCalls,     \* calls of requests.get made by the request
    created,      \* HistoryEntry rows built by the request
    started,      \* requests received so far
    calls,        \* the entries of the save_to_excel calls, in call order
    ioFailed,     \* some file operation has failed
    unreadableSeen, \* some call has found the file unreadable
    d_args,       \* a direct call of search_github: its arguments
    d_out         \* and its outcome

vars ==
    <<store, now, pc, search_type, query, token, users, error, page, new_entry,
      updated_df, ret, failure, overwritten, netCalls, created, started, calls,
      ioFailed, unreadableSeen, d_args, d_out>>

routeVars ==
    <<store, pc, search_type, query, token, users, error, page, new_entry,
      updated_df, ret, failure, overwritten, netCalls, created, started, calls,
      ioFailed, unreadableSeen>>

ioVars == <<ioFailed, unreadableSeen>>

saveVars == <<new_entry, updated_df, ret, failure, overwritten, created, calls>>

searchVars == <<search_type, query, token, users, error, netCalls>>

directVars == <<d_args, d_out>>

NoEntry ==
    [Timestamp |-> 0, Search_Type |-> <<>>, Input |-> <<>>, Results |-> <<>>,
     Result_Count |-> 0]

AbsentStore == [state |-> "absent", rows |-> <<>>]

Unreadable == [state |-> "corrupt", rows |-> <<>>]

RouteInit ==
    /\ store = AbsentStore
    /\ pc = [p \in Procs |-> "idle"]
    /\ search_type = [p \in Procs |-> PyNone]
    /\ query = [p \in Procs |-> <<>>]
    /\ token = [p \in Procs |-> None]
    /\ users = [p \in Procs |-> <<>>]
    /\ error = [p \in Procs |-> None]
    /\ page = [p \in Procs |-> ""]
    /\ new_entry = [p \in Procs |-> NoEntry]
    /\ updated_df = [p \in Procs |-> <<>>]
    /\ ret = [p \in Procs |-> "none"]
    /\ failure = [p \in Procs |-> None]
    /\ overwritten = [p \in Procs |-> FALSE]
    /\ netCalls = [p \in Procs |-> 0]
    /\ created = [p \in Procs |-> 0]
    /\ started = 0
    /\ calls = <<>>
    /\ ioFailed = FALSE
    /\ unreadableSeen = FALSE

Init ==
    /\ RouteInit
    /\ now = 0
    /\ d_args = [search_type |-> PyNone, query |-> <<>>, token |-> None]
    /\ d_out = None

\* ----------------------------------------------------------- the clock
Tick ==
    /\ now < MaxNow
    /\ now' = now + 1
    /\ UNCHANGED <<routeVars, directVars>>

\* ------------------------------------------------------------ search()
\* line 133: request.form.get('token', '').strip() or None
TokenOf(raw) == IF Strip(raw) = <<>> THEN None ELSE Some(Strip(raw))

\* lines 131-137: the form is read; an empty query is answered by a redirect
Request(p) ==
    /\ pc[p] = "idle"
    /\ started < MaxRequests
    /\ started' = started + 1
    /\ \E st \in FormSearchTypes, raw \in RawQueries, rawtok \in RawTokens :
        /\ search_type' = [search_type EXCEPT ![p] = st]
        /\ query' = [query EXCEPT ![p] = Strip(raw)]
        /\ token' = [token EXCEPT ![p] = TokenOf(rawtok)]
        /\ IF Strip(raw) = <<>>
           THEN /\ page' = [page EXCEPT ![p] = "redirect"]
                /\ pc' = [pc EXCEPT ![p] = "done"]
           ELSE /\ page' = page
                /\ pc' = [pc EXCEPT ![p] = "search"]
    /\ UNCHANGED <<store, now, users, error, netCalls, saveVars, ioVars, directVars>>

\* what search_github can return to search(): its outcomes over every upstream
\* answer, tabulated by the arguments and the time of the call
Outcomes ==
    [st \in FormSearchTypes, q \in {Strip(raw) : raw \in RawQueries},
     tok \in {TokenOf(raw) : raw \in RawTokens}, t \in 0..MaxNow |->
        {search_github(st, q, tok, resp, t) : resp \in Responses}]

\* a search() that lacks the return of lines 141-143
SearchAlwaysSaves(p) ==
    /\ pc[p] = "search"
    /\ \E out \in Outcomes[search_type[p], query[p], token[p], now] :
        /\ netCalls' = [netCalls EXCEPT ![p] = @ + out.calls]
        /\ users' = [users EXCEPT ![p] = out.users]
        /\ error' = [error EXCEPT ![p] = out.error]
    /\ pc' = [pc EXCEPT ![p] = "save"]
    /\ token' = [token EXCEPT ![p] = None]
    /\ UNCHANGED <<store, now, search_type, query, page, saveVars, started, ioVars,
                   directVars>>

\* lines 139-143: search_github is called; an error is flashed and answered
\* with the index page, without a call of save_to_excel
Search(p) ==
    /\ pc[p] = "search"
    /\ \E out \in Outcomes[search_type[p], query[p], token[p], now] :
        /\ netCalls' = [netCalls EXCEPT ![p] = @ + out.calls]
        /\ IF out.raised # None
           THEN /\ page' = [page EXCEPT ![p] = "500"]
                /\ pc' = [pc EXCEPT ![p] = "done"]
                /\ UNCHANGED <<users, error>>
           ELSE /\ users' = [users EXCEPT ![p] = out.users]
                /\ error' = [error EXCEPT ![p] = out.error]
                /\ IF out.error # None
                   THEN /\ page' = [page EXCEPT ![p] = "index"]
                        /\ pc' = [pc EXCEPT ![p] = "done"]
                   ELSE /\ page' = page
                        /\ pc' = [pc EXCEPT ![p] = "save"]
    /\ token' = [token EXCEPT ![p] = None]
    /\ UNCHANGED <<store, now, search_type, query, saveVars, started, ioVars, directVars>>

\* ------------------------------------------------------ save_to_excel()
\* lines 96-106: the entry is built, outside the try statement: the TypeError
\* of the join leaves save_to_excel and search()
SaveBuild(p) ==
    /\ pc[p] = "save"
    /\ IF AllStr(Usernames(users[p]))
       THEN LET e == NewEntry(now, search_type[p], query[p], users[p])
            IN  /\ new_entry' = [new_entry EXCEPT ![p] = e]
                /\ created' = [created EXCEPT ![p] = @ + 1]
                /\ calls' = Append(calls, e)
                /\ pc' = [pc EXCEPT ![p] = "exists"]
                /\ UNCHANGED <<ret, page>>
       ELSE /\ ret' = [ret EXCEPT ![p] = "raised"]
            /\ page' = [page EXCEPT ![p] = "500"]
            /\ pc' = [pc EXCEPT ![p] = "done"]
            /\ UNCHANGED <<new_entry, created, calls>>
    /\ UNCHANGED <<store, now, searchVars, updated_df, failure, overwritten, started,
                   ioVars, directVars>>

\* lines 110 and 113-115: os.path.exists(RESULTS_FILE)
SaveExists(p) ==
    /\ pc[p] = "exists"
    /\ IF store.state # "absent"
       THEN /\ pc' = [pc EXCEPT ![p] = "read"]
            /\ updated_df' = updated_df
       ELSE /\ pc' = [pc EXCEPT ![p] = "open"]
            /\ updated_df' = [updated_df EXCEPT ![p] = <<new_entry[p]>>]
    /\ UNCHANGED <<store, now, searchVars, page, new_entry, ret, failure, overwritten,
                   created, calls, started, ioVars, directVars>>

\* lines 111-112: the file is read and the entry appended
SaveRead(p) ==
    /\ pc[p] = "read"
    /\ store.state = "ok"
    /\ updated_df' = [updated_df EXCEPT ![p] = Concat(ReadExcel(store.rows), new_entry[p])]
    /\ pc' = [pc EXCEPT ![p] = "open"]
    /\ UNCHANGED <<store, now, searchVars, page, new_entry, ret, failure, overwritten,
                   created, calls, started, ioVars, directVars>>

\* the handler leaves the try statement by an exception (lines 121-123)
Fails(p, exc) ==
    /\ failure' = [failure EXCEPT ![p] = Some(exc)]
    /\ ret' = [ret EXCEPT ![p] = OnSaveError(exc)]
    /\ pc' = [pc EXCEPT ![p] = "saved"]
    /\ ioFailed' = TRUE
    /\ unreadableSeen' = (unreadableSeen \/ exc = "BadZipFile")
    /\ UNCHANGED <<now, searchVars, page, new_entry, updated_df, overwritten, created,
                   calls, started, directVars>>

\* line 111 raising: the file is unreadable, or the read meets an I/O error
SaveReadFails(p) ==
    /\ pc[p] = "read"
    /\ \E exc \in IOExceptions :
        /\ (exc = "BadZipFile") = (store.state = "corrupt")
        /\ Fails(p, exc)
    /\ store' = store

\* line 118, first half: to_excel opens the file for writing, which creates
\* or truncates it
SaveOpen(p) ==
    /\ pc[p] = "open"
    /\ store' = Unreadable
    /\ overwritten' = [overwritten EXCEPT ![p] = FALSE]
    /\ pc' = [pc EXCEPT ![p] = "close"]
    /\ UNCHANGED <<now, searchVars, page, new_entry, updated_df, ret, failure, created,
                   calls, started, ioVars, directVars>>

\* line 118 raising before the file is touched
SaveOpenFails(p) ==
    /\ pc[p] = "open"
    /\ \E exc \in IOExceptions \ {"BadZipFile"} : Fails(p, exc)
    /\ store' = store

\* line 118, second half: the workbook is written and the file closed. When
\* another handler wrote the file in between, the bytes of the two writes
\* overlap and the file holds this table or is unreadable
SaveClose(p) ==
    /\ pc[p] = "close"
    /\ \E garbled \in BOOLEAN :
        /\ garbled => overwritten[p]
        /\ store' = IF garbled THEN Unreadable
                    ELSE [state |-> "ok", rows |-> ToExcel(updated_df[p])]
    /\ overwritten' = [q \in Procs |-> IF q # p /\ pc[q] = "close" THEN TRUE
                                       ELSE overwritten[q]]
    /\ ret' = [ret EXCEPT ![p] = "True"]
    /\ pc' = [pc EXCEPT ![p] = "saved"]
    /\ UNCHANGED <<now, searchVars, page, new_entry, updated_df, failure, created, calls,
                   started, ioVars, directVars>>

\* line 118 raising while the workbook is written: the file stays truncated
SaveCloseFails(p) ==
    /\ pc[p] = "close"
    /\ \E exc \in IOExceptions \ {"BadZipFile"} : Fails(p, exc)
    /\ store' = Unreadable

\* lines 146-152: the value of save_to_excel is dropped, the results page is
\* rendered
Render(p) ==
    /\ pc[p] = "saved"
    /\ page' = [page EXCEPT ![p] = IF ret[p] = "raised" THEN "500" ELSE "results"]
    /\ pc' = [pc EXCEPT ![p] = "done"]
    /\ UNCHANGED <<store, now, searchVars, saveVars, started, ioVars, directVars>>

\* the request is answered; the handler's locals are gone
Answer(p) ==
    /\ pc[p] = "done"
    /\ pc' = [pc EXCEPT ![p] = "idle"]
    /\ search_type' = [search_type EXCEPT ![p] = PyNone]
    /\ query' = [query EXCEPT ![p] = <<>>]
    /\ users' = [users EXCEPT ![p] = <<>>]
    /\ error' = [error EXCEPT ![p] = None]
    /\ page' = [page EXCEPT ![p] = ""]
    /\ new_entry' = [new_entry EXCEPT ![p] = NoEntry]
    /\ updated_df' = [updated_df EXCEPT ![p] = <<>>]
    /\ ret' = [ret EXCEPT ![p] = "none"]
    /\ failure' = [failure EXCEPT ![p] = None]
    /\ overwritten' = [overwritten EXCEPT ![p] = FALSE]
    /\ netCalls' = [netCalls EXCEPT ![p] = 0]
    /\ created' = [created EXCEPT ![p] = 0]
    /\ UNCHANGED <<store, now, token, started, calls, ioVars, directVars>>

\* ------------------------------------------------------- specifications
Step(p) ==
    \/ Search(p)
    \/ SaveBuild(p)
    \/ SaveExists(p)
    \/ SaveRead(p)
    \/ SaveReadFails(p)
    \/ SaveOpen(p)
    \/ SaveOpenFails(p)
    \/ SaveClose(p)
    \/ SaveCloseFails(p)
    \/ Render(p)
    \/ Answer(p)

\* request handlers running concurrently (one thread per request)
Next ==
    \/ Tick
    \/ \E p \in Procs : Request(p)
    \/ \E p \in Procs : Step(p)

Spec == Init /\ [][Next]_vars

\* one request at a time: a request is received only when none is in progress
RequestSeq(p) ==
    /\ \A q \in Procs : pc[q] = "idle"
    /\ Request(p)

NextSeq ==
    \/ Tick
    \/ \E p \in Procs : RequestSeq(p)
    \/ \E p \in Procs : Step(p)

SpecSeq == Init /\ [][NextSeq]_vars

\* search_github called directly, on every argument and every upstream answer
InitSearch ==
    /\ RouteInit
    /\ now \in 0..MaxNow
    /\ d_args \in [search_type : SearchTypes, query : Queries, token : Tokens]
    /\ d_out = None

DirectSearch ==
    /\ d_out = None
    /\ \E resp \in Responses :
        d_out' = Some([resp |-> resp, t |-> now,
                       out |-> search_github(d_args.search_type, d_args.query,
                                             d_args.token, resp, now)])
    /\ UNCHANGED <<routeVars, now, d_args>>

NextSearch == DirectSearch

SpecSearch == InitSearch /\ [][NextSearch]_vars

\* ------------------------------------------------ claims on search_github
\* the direct call has returned
Returned == d_out # None

\* the upstream answer is one search_github can turn into a user list: a
\* response below 400 whose payload is a dict with an item list (or none) of
\* items that all have a login
UpstreamOk(resp) ==
    /\ resp.transport = "ok"
    /\ resp.status < 400
    /\ resp.body.shape \in {"noitems", "dict"}
    /\ \A i \in 1..Len(resp.body.items) : "login" \in DOMAIN resp.body.items[i]

\* C9: for every query whose text is empty, whatever the kind and the
\* credential, search makes no network call and returns users = [] with a
\* non-null error.
C9_EmptyQueryNoNetwork ==
    (Returned /\ d_args.query = <<>>) =>
        /\ d_out[1].out.calls = 0
        /\ d_out[1].out.sent = None
        /\ d_out[1].out.users = <<>>
        /\ d_out[1].out.error # None
        /\ d_out[1].out.raised = None

C9_Witness ==
    /\ Returned
    /\ d_args.query = <<>>
    /\ d_args.token # None
    /\ d_args.search_type = "email"
    /\ d_out[1].out.calls = 0

\* C5: for every input and every upstream behaviour search never raises: it
\* returns an outcome; when the query is empty or the upstream answer is not a
\* usable one the outcome has users = [] and a non-null error, so error = None
\* comes only with a usable answer; and an outcome with an error has no users.
C5_NeverRaises ==
    Returned =>
        /\ d_out[1].out.raised = None
        /\ d_out[1].out.error # None => d_out[1].out.users = <<>>
        /\ (d_args.query = <<>> \/ ~UpstreamOk(d_out[1].resp)) =>
               /\ d_out[1].out.error # None
               /\ d_out[1].out.users = <<>>

\* a payload item without login: the KeyError comes back as an error outcome
C5_Witness ==
    /\ Returned
    /\ d_args.query # <<>>
    /\ d_out[1].resp.transport = "ok"
    /\ d_out[1].resp.status = 200
    /\ d_out[1].resp.body.shape = "dict"
    /\ \E i \in 1..Len(d_out[1].resp.body.items) :
           "login" \notin DOMAIN d_out[1].resp.body.items[i]
    /\ d_out[1].out.raised = None
    /\ d_out[1].out.error # None
    /\ d_out[1].out.users = <<>>

\* the response is a 403 whose remaining-quota header is present and equals 0
RateLimited(resp) ==
    /\ resp.transport = "ok"
    /\ resp.status = 403
    /\ resp.remaining # None
    /\ IsNumeral(resp.remaining[1])
    /\ \A i \in 1..Len(resp.remaining[1]) : resp.remaining[1][i] = "0"

\* the outcome is the rate-limit one, with this wait time
RateLimitOutcome(out, wait) ==
    /\ out.raised = None
    /\ out.users = <<>>
    /\ out.error # None
    /\ out.error[1].text = "GitHub API rate limit exceeded"
    /\ out.error[1].wait = wait

\* C6 as claimed: whenever the response has status 403 and its remaining-quota
\* header is present and equals 0, search returns users = [] and the rate-limit
\* error, not the generic one.
C6_Original ==
    (Returned /\ d_args.query # <<>> /\ RateLimited(d_out[1].resp)) =>
        /\ d_out[1].out.raised = None
        /\ d_out[1].out.users = <<>>
        /\ d_out[1].out.error # None
        /\ d_out[1].out.error[1].text = "GitHub API rate limit exceeded"

\* C6, amended: whenever the response has status 403, its remaining-quota
\* header is present and equals 0 and its reset-epoch header is present and a
\* number, search returns users = [] and the rate-limit error with the wait
\* time max(0, reset - now), not the generic HTTP error, and does not raise;
\* when the reset-epoch header is missing or no number it returns users = []
\* and the generic "Error searching by" error, and does not raise either.
C6_RateLimit ==
    (Returned /\ d_args.query # <<>> /\ RateLimited(d_out[1].resp)) =>
        LET resp == d_out[1].resp
            out == d_out[1].out
        IN  IF resp.reset # None /\ IsNumeral(resp.reset[1])
            THEN LET r == ParseInt(resp.reset[1])
                 IN  RateLimitOutcome(out, IF r > d_out[1].t THEN r - d_out[1].t ELSE 0)
            ELSE /\ out.raised = None
                 /\ out.users = <<>>
                 /\ out.error # None
                 /\ out.error[1].text = "Error searching by"

\* a rate-limited response whose reset lies ahead: a positive wait
C6_Witness ==
    /\ Returned
    /\ d_args.query # <<>>
    /\ RateLimited(d_out[1].resp)
    /\ d_out[1].resp.reset = Some(<<"2">>)
    /\ d_out[1].t = 1
    /\ RateLimitOutcome(d_out[1].out, 1)

\* ------------------------------------------ claims on the route and the store
Last(seq) == seq[Len(seq)]

\* the handler is inside save_to_excel, past the building of the entry, or
\* has just left it
InSave(p) == pc[p] \in {"exists", "read", "open", "close", "saved"}

\* the Results column from the handles, built from the right
RECURSIVE Summary(_)
Summary(handles) ==
    IF Len(handles) = 1 THEN handles[1]
    ELSE Summary(SubSeq(handles, 1, Len(handles) - 1)) \o <<",", " ">> \o Last(handles)

\* C8: the row record appends has Result Count = len(users) and Results equal
\* to the handles joined by comma-space in the order of the sequence, "No
\* results" and 0 for no users; Search Type and Input are copies of the kind
\* and the input text; that row is the last one of the table handed to the
\* file and of the rows written from it.
C8_RowOfUsers ==
    \A p \in Procs :
        InSave(p) =>
            /\ new_entry[p].Result_Count = Len(users[p])
            /\ new_entry[p].Results =
                   IF Len(users[p]) = 0
                   THEN <<"N", "o", " ", "r", "e", "s", "u", "l", "t", "s">>
                   ELSE Summary([i \in 1..Len(users[p]) |-> users[p][i].login.v])
            /\ new_entry[p].Search_Type = <<search_type[p]>>
            /\ new_entry[p].Input = query[p]
            /\ pc[p] \in {"open", "close"} =>
                   /\ Last(updated_df[p]) = new_entry[p]
                   /\ Last(ToExcel(updated_df[p])) = new_entry[p]

\* two calls have returned true, one with two users and one with none
C8_Witness ==
    \E p, q \in Procs :
        /\ pc[p] = "saved" /\ ret[p] = "True"
        /\ pc[q] = "saved" /\ ret[q] = "True"
        /\ Len(users[p]) = 2
        /\ users[p][1].login.v = <<"b", "c">>
        /\ new_entry[p].Results = <<"b", "c", ",", " ", "a">>
        /\ users[q] = <<>>
        /\ new_entry[q].Result_Count = 0

\* C7: a failure while record reads or writes the file makes it return false
\* and never leaves it as an exception; record returns true only from a cycle
\* without failure, and the write that makes it return true puts a table in
\* the file whose last row is the new entry (the file is that table unless
\* the bytes of an overlapping write garble it).
C7_FailuresAreFalse ==
    [][\A p \in Procs :
          /\ failure'[p] # None => ret'[p] = "False"
          /\ (ret[p] = "none" /\ ret'[p] = "True") =>
                /\ failure'[p] = None
                /\ pc[p] = "close"
                /\ updated_df[p] # <<>>
                /\ Last(updated_df[p]) = new_entry[p]
                /\ store'.state = "ok" =>
                       /\ store'.rows = ToExcel(updated_df[p])
                       /\ Last(store'.rows) = new_entry[p]
                /\ ~overwritten[p] => store'.state = "ok"]_vars

\* one call has met a failure and returned false, another has returned true
C7_Witness ==
    \E p, q \in Procs :
        /\ pc[p] = "saved" /\ failure[p] = Some("OSError") /\ ret[p] = "False"
        /\ pc[q] = "saved" /\ failure[q] = None /\ ret[q] = "True"
        /\ store.state = "ok"
        /\ Last(store.rows) = new_entry[q]

\* C3: when two requests have been received and both calls of record have
\* returned true after both found no file, a readable file holds the one row
\* of one of them alone.
C3_LastWriterWins ==
    \A p, q \in Procs :
        (/\ p # q
         /\ started = 2
         /\ pc[p] = "saved" /\ ret[p] = "True"
         /\ pc[q] = "saved" /\ ret[q] = "True"
         /\ Len(updated_df[p]) = Len(updated_df[q])
         /\ store.state = "ok")
            => store.rows \in {<<new_entry[p]>>, <<new_entry[q]>>}

\* both calls returned true, the file holds the entry of the last writer and
\* the other entry is in no row
C3_Witness ==
    \E p, q \in Procs :
        /\ p # q
        /\ pc[p] = "saved" /\ ret[p] = "True"
        /\ pc[q] = "saved" /\ ret[q] = "True"
        /\ ~ioFailed
        /\ Len(calls) = 2
        /\ store.state = "ok"
        /\ store.rows = <<new_entry[q]>>
        /\ new_entry[p] # new_entry[q]

\* C2 as claimed, at the states where the file is readable: a row that a call
\* of record has written is in the file, unchanged, at the place where it was
\* written.
C2_RowsKept ==
    \A p \in Procs :
        (ret[p] = "True" /\ store.state = "ok") =>
            /\ Len(store.rows) >= Len(updated_df[p])
            /\ store.rows[Len(updated_df[p])] = new_entry[p]

\* C4 as claimed: a request creates one HistoryEntry when search produced an
\* outcome, none when it had no query text, never more than one.
C4_Original ==
    \A p \in Procs :
        pc[p] = "done" =>
            /\ created[p] <= 1
            /\ query[p] = <<>> => created[p] = 0
            /\ netCalls[p] = 1 => created[p] = 1

\* C4, amended: a request creates one HistoryEntry when search returned
\* error = None (zero-result successes included) and every handle returned is
\* a string; it creates none when it had no query text, when search returned
\* an error, or when a handle is no string; never more than one.
C4_OneEntryPerSuccess ==
    \A p \in Procs :
        pc[p] = "done" =>
            /\ created[p] <= 1
            /\ query[p] = <<>> => (created[p] = 0 /\ netCalls[p] = 0)
            /\ (created[p] = 1) =
                   (/\ query[p] # <<>>
                    /\ netCalls[p] = 1
                    /\ error[p] = None
                    /\ \A i \in 1..Len(users[p]) : users[p][i].login.t = "str")

\* one request answered after an error without an entry, another after a
\* success with no user and with one entry
C4_Witness ==
    \E p, q \in Procs :
        /\ pc[p] = "done" /\ error[p] # None /\ netCalls[p] = 1 /\ created[p] = 0
        /\ pc[q] = "done" /\ error[q] = None /\ users[q] = <<>> /\ page[q] = "results"
        /\ created[q] = 1

\* no handler has a table in hand that it is about to write
NoPendingWriter == \A q \in Procs : pc[q] \notin {"open", "close"}

Quiescent == \A p \in Procs : pc[p] = "idle"

\* C1 as claimed: with one call after another and no I/O failure, every call
\* returns true, and after N calls the file holds N rows, the i-th the entry of
\* the i-th call; no call, no file.
C1_RowsAreCalls ==
    ~ioFailed =>
        /\ \A p \in Procs : pc[p] = "saved" => ret[p] = "True"
        /\ Quiescent =>
              IF calls = <<>> THEN store = AbsentStore
              ELSE store = [state |-> "ok", rows |-> calls]

====
